---- MODULE Spec2Model ----
(***************************************************************************)
(* pastecat: the memory-mapped paste store (storage_mmap.go) driven by the *)
(* upload handler (handlePost), the readers (handleGet), the deletion      *)
(* timers and the start-up recovery walk.                                  *)
(*                                                                         *)
(* Two quota trackers exist in the sources: the store's own field          *)
(* `stats Stats` (storage_mmap.go:19, used as s.stats by Put, Delete and   *)
(* Recover) and the handler's `stats` built in main (main:194, used by     *)
(* handlePost).  They are modelled as the two variables sstats and hstats. *)
(*                                                                         *)
(* Time is an integer clock.  The recovery walk takes less than one tick,  *)
(* so the clock reads startTime during the whole walk.                     *)
(***************************************************************************)
EXTENDS Integers, Sequences, FiniteSets, TLC

\* ---------------------------------------------------------------- bounds
\* Ticks of the clock before the process starts (modTimes are 0..MaxAge).
MaxAge == 2
\* Ticks of the clock after the process started.
MaxTicks == 2
\* System calls that fail while requests are served (write, open/mmap,
\* munmap, remove).
MaxFaults == 1

\* ------------------------------------------------------- configuration
\* The identifier space.
IDs == {1, 2}
\* The flags -t (lifetime of the pastes, 0 disables expiration), -m (maximum
\* number of pastes, 0 is unbounded) and -M (maximum storage, 0 is unbounded).
Configs == {[t |-> 0, m |-> 0, M |-> 3],
            [t |-> 2, m |-> 1, M |-> 0],
            [t |-> 2, m |-> 0, M |-> 3]}
\* Non-empty uploads (getContentFromForm refuses an empty one).
Contents == {<<1>>, <<2, 1>>}
\* What a file found on disk at start-up may hold (<<>> is a zero-byte file).
DiskContents == {<<>>, <<1>>}
\* The upload requests of one run; each is received once, in this order.
Uploads == {1, 2}
\* The readers (handleGet); each holds at most one handle at a time.
Readers == {1}
\* The callers of Delete through the Store interface; each calls it once.
Deleters == {1}

startTime == MaxAge
MaxTime == MaxAge + MaxTicks

VARIABLES
    lifeTime,    \* flag -t
    maxNumber,   \* flag -m
    maxStorage,  \* flag -M
    now,         \* the clock
    phase,       \* "recover" (NewMmapStore is walking), "serve", "failed"
    walk,        \* the paths the recovery walk has still to visit
    disk,        \* path -> [content, modTime]: the regular files under dir
    cache,       \* s.cache: id -> mmapCache
    sstats,      \* s.stats: the store's quota tracker
    hstats,      \* stats of main: the handler's quota tracker
    mapped,      \* the regions that are mapped (mmap'ed and not munmap'ed)
    handles,     \* reader -> MmapPaste: the handles Get returned, not yet closed
    timers,      \* the armed one-shot deletion timers
    del,         \* the Delete call that holds the write lock, if any
    up,          \* upload -> the position of its handlePost
    deletes,     \* the callers of Delete through the Store interface so far
    faults,      \* the system calls that failed so far
    limbo,       \* the objects whose Delete failed: off the table, not released
    leaked,      \* the ids whose holder's Delete failed to unmap its mapping
    live,        \* id -> the content its live object was stored or recovered with
    last         \* the call of Recover, Get, Delete or handlePost that returned
                 \* in the last step, and what it returned (NoCall otherwise)

vars == <<lifeTime, maxNumber, maxStorage, now, phase, walk, disk, cache,
          sstats, hstats, mapped, handles, timers, del, up, deletes, faults,
          limbo, leaked, live, last>>

\* ------------------------------------------------------------- paths
topDir == <<"pastes">>
pathFromID(id) == <<"pastes", id>>
\* A regular file whose name is not an id.
BadPath == <<"pastes", 0>>

idFromPath(path) ==
    IF Len(path) = 2 /\ path[2] \in IDs
    THEN [ok |-> TRUE, id |-> path[2]]
    ELSE [ok |-> FALSE, id |-> 0]

\* filepath.Walk visits the directory, then its files in lexical order.
WalkOrder == <<BadPath>> \o [i \in 1..Cardinality(IDs) |-> pathFromID(i)]
InDisk(d, p) == p \in DOMAIN d
WalkOf(d) ==
    LET F(p) == InDisk(d, p) IN <<topDir>> \o SelectSeq(WalkOrder, F)

\* ------------------------------------------------------- quota tracker
NoStats == [number |-> 0, storage |-> 0]

hasSpaceFor(st, size) ==
    /\ (maxNumber > 0 => st.number + 1 <= maxNumber)
    /\ (maxStorage > 0 => st.storage + size <= maxStorage)

makeSpaceFor(st, size) ==
    [number |-> st.number + 1, storage |-> st.storage + size]

freeSpace(st, size) ==
    [number |-> st.number - 1, storage |-> st.storage - size]

\* ------------------------------------------------------------ helpers
Remove(f, k) == [x \in DOMAIN f \ {k} |-> f[x]]
Insert(f, k, v) == [x \in DOMAIN f \cup {k} |-> IF x = k THEN v ELSE f[x]]
Empty == [x \in {} |-> 0]

NoCall == [op |-> "none", id |-> 0, err |-> "", status |-> 0]
Call(op, id, err) == [op |-> op, id |-> id, err |-> err, status |-> 0]

\* The regions something still points at: a table entry, a handle, a Delete.
Referenced ==
    mapped \cup {cache[i].mmap.region : i \in DOMAIN cache}
           \cup {handles[n].content.region : n \in DOMAIN handles}
           \cup {d.cached.mmap.region : d \in del}

\* A region nothing points at (regions that nothing points at are alike).
nextRegion == CHOOSE r \in 1..(Cardinality(Referenced) + 1) : r \notin Referenced

\* getMmap: a fresh region showing the first `length` bytes of the file.
getMmap(content, length) ==
    [region |-> nextRegion, data |-> SubSeq(content, 1, length)]

\* ----------------------------------------------------- deletion timers
\* setupPasteDeletion / SetupPasteDeletion: nothing when expiration is
\* disabled; otherwise a one-shot timer that calls Delete(id) `after` later
\* (at once when `after` is not positive).  `tracked` says whether the timer
\* was given the handler's tracker to release `size` on a successful Delete.
Arm(ts, id, size, after, tracked) ==
    IF lifeTime = 0 THEN ts
    ELSE ts \cup {[id |-> id, size |-> size, after |-> after,
                   due |-> now + (IF after > 0 THEN after ELSE 0),
                   tracked |-> tracked]}

\* ----------------------------------------------------------- start-up
Idle == [pc |-> "idle", content |-> <<>>, reserved |-> FALSE, status |-> 0]
Done == [Idle EXCEPT !.pc = "done"]

InitDisks ==
    LET Files == [content : DiskContents, modTime : 0..MaxAge]
        Paths == {pathFromID(i) : i \in IDs}
        Good == UNION {[S -> Files] : S \in SUBSET Paths}
        Bad == [content |-> <<1>>, modTime |-> MaxAge]
    IN Good \cup {Insert(d, BadPath, Bad) : d \in Good}

Init ==
    /\ \E c \in Configs : lifeTime = c.t /\ maxNumber = c.m /\ maxStorage = c.M
    /\ now = startTime
    /\ phase = "recover"
    /\ disk \in InitDisks
    /\ walk = WalkOf(disk)
    /\ cache = Empty
    /\ sstats = NoStats
    /\ hstats = NoStats
    /\ mapped = {}
    /\ handles = Empty
    /\ timers = {}
    /\ del = {}
    /\ up = [u \in Uploads |-> Idle]
    /\ deletes = {}
    /\ faults = 0
    /\ limbo = NoStats
    /\ leaked = {}
    /\ live = Empty
    /\ last = NoCall

\* ------------------------------------------------------------ Recover
\* A remaining lifetime that forgets the age of the file.
lifeLeftFull(modTime) == lifeTime

\* storage_mmap.go:146-148: modTime, deathTime, lifeLeft.
lifeLeftOf(modTime) == (modTime + lifeTime) - startTime

\* An expiry test that keeps a file whose death time is the start time.
RecoverExpiredLate(modTime) == lifeTime > 0 /\ lifeLeftOf(modTime) < 0

\* An expiry test that forgets that a lifetime of 0 disables expiration.
RecoverExpiredAlways(modTime) == lifeLeftOf(modTime) <= 0

\* storage_mmap.go:149: the file is past its death time.
RecoverExpired(modTime) == lifeTime > 0 /\ lifeLeftOf(modTime) <= 0

\* The walk stops at the first error and NewMmapStore returns it.
RecoverFails(path, err) ==
    /\ phase' = "failed"
    /\ walk' = <<>>
    /\ last' = Call("recover", path[Len(path)], err)

RecoverNext(path) ==
    /\ walk' = Tail(walk)
    /\ phase' = phase

\* os.Remove(path) of Recover: the file goes, or the error is returned.
RecoverRemove(path, why) ==
    \/ /\ disk' = Remove(disk, path)
       /\ RecoverNext(path)
       /\ last' = Call("recover", path[2], why)
    \/ /\ disk' = disk
       /\ RecoverFails(path, "remove")

\* A Recover that maps the file and forgets the table.
RecoverCacheSkips(id, cached) == cache

\* storage_mmap.go:174: s.cache[id] = cached.
RecoverCache(id, cached) == Insert(cache, id, cached)

RecoverInsert(path, id, file, size) ==
    LET lifeLeft == lifeLeftOf(file.modTime)
        mmap == getMmap(file.content, size)
    IN /\ sstats' = makeSpaceFor(sstats, size)
       /\ cache' = RecoverCache(id, [reading |-> 0, modTime |-> file.modTime,
                                      path |-> path, mmap |-> mmap, size |-> size])
       /\ mapped' = mapped \cup {mmap.region}
       /\ timers' = Arm(timers, id, size, lifeLeft, FALSE)
       /\ live' = Insert(live, id, file.content)
       /\ RecoverNext(path)
       /\ last' = Call("recover", id, "")

Recover ==
    /\ phase = "recover"
    /\ walk # <<>>
    /\ LET path == Head(walk) IN
       /\ UNCHANGED <<lifeTime, maxNumber, maxStorage, now, hstats, handles, del, up, deletes, faults, limbo, leaked>>
       /\ IF path = topDir
          THEN /\ RecoverNext(path)
               /\ last' = NoCall
               /\ UNCHANGED <<disk, cache, sstats, mapped, timers, live>>
          ELSE IF ~idFromPath(path).ok
          THEN /\ RecoverFails(path, "badid")
               /\ UNCHANGED <<disk, cache, sstats, mapped, timers, live>>
          ELSE LET id == idFromPath(path).id
                   file == disk[path]
                   size == Len(file.content)
               IN IF RecoverExpired(file.modTime)
                  THEN /\ RecoverRemove(path, "expired")
                       /\ UNCHANGED <<cache, sstats, mapped, timers, live>>
                  ELSE IF size = 0
                  THEN /\ RecoverRemove(path, "empty")
                       /\ UNCHANGED <<cache, sstats, mapped, timers, live>>
                  ELSE IF ~hasSpaceFor(sstats, size)
                  THEN /\ RecoverFails(path, "quota")
                       /\ UNCHANGED <<disk, cache, sstats, mapped, timers, live>>
                  ELSE \/ /\ RecoverInsert(path, id, file, size)
                          /\ disk' = disk
                       \/ /\ RecoverFails(path, "mmap")
                          /\ UNCHANGED <<disk, cache, sstats, mapped, timers, live>>

\* NewMmapStore returns the store: requests are served from here on.
NewMmapStore ==
    /\ phase = "recover"
    /\ walk = <<>>
    /\ phase' = "serve"
    /\ last' = NoCall
    /\ UNCHANGED <<lifeTime, maxNumber, maxStorage, now, walk, disk, cache, sstats,
                   hstats, mapped, handles, timers, del, up, live, deletes, faults, limbo, leaked>>

\* ---------------------------------------------------------------- Get
\* The write lock is free: no Delete is between its Lock and its Unlock.
\* (Get, Put and Recover hold the lock for one step only.)
Unlocked == del = {}

Fault == faults < MaxFaults /\ faults' = faults + 1
NoFault == faults' = faults

FreeSlots == Readers \ DOMAIN handles

\* storage_mmap.go:76-82: `cached` is a copy of the map's value, and the
\* handle points at that copy; Add(1) counts on the copy's WaitGroup.
GetHandle(id) ==
    LET cached == cache[id]
        reader == cached.mmap
    IN [id |-> id, content |-> reader,
        cache |-> [cached EXCEPT !.reading = cached.reading + 1]]

Get(id) ==
    /\ phase = "serve"
    /\ Unlocked
    /\ IF id \notin DOMAIN cache
       THEN /\ last' = Call("get", id, "notfound")
            /\ handles' = handles
       ELSE /\ FreeSlots # {}
            /\ LET slot == CHOOSE n \in FreeSlots : \A m \in FreeSlots : n <= m
                   h == GetHandle(id)
               IN /\ handles' = Insert(handles, slot, h)
                  /\ last' = Call("get", id, "")
    /\ UNCHANGED <<lifeTime, maxNumber, maxStorage, now, phase, walk, disk, cache,
                   sstats, hstats, mapped, timers, del, up, live, deletes, faults, limbo, leaked>>

\* MmapPaste.Close: Done() on the handle's own copy.
Close(slot) ==
    /\ slot \in DOMAIN handles
    /\ handles' = Remove(handles, slot)
    /\ last' = NoCall
    /\ UNCHANGED <<lifeTime, maxNumber, maxStorage, now, phase, walk, disk, cache,
                   sstats, hstats, mapped, timers, del, up, live, deletes, faults, limbo, leaked>>

\* ---------------------------------------------------------------- Put
\* An availability check that finds every id free.
availableAlways(id) == TRUE

\* storage_mmap.go:92-95: the id has no entry in the table.
available(id) == id \notin DOMAIN cache

\* A Put that asks for one byte more than it stores.
PutAdmitsStrict(size) == hasSpaceFor(sstats, size + 1)

\* A Put that skips the admission check.
PutAdmitsAlways(size) == TRUE

\* storage_mmap.go:89: the admission check of Put.
PutAdmits(size) == hasSpaceFor(sstats, size)

\* A mapping one byte short.
PutMapShort(content) == Len(content) - 1

\* storage_mmap.go:105: the mapping covers len(content) bytes.
PutMapLength(content) == Len(content)

\* storage_mmap.go:109-115: the accounting and the table insertion.
PutInsert(id, content, mmap) ==
    LET size == Len(content) IN
    /\ sstats' = makeSpaceFor(sstats, size)
    /\ cache' = Insert(cache, id, [reading |-> 0, modTime |-> now,
                                    path |-> pathFromID(id), mmap |-> mmap,
                                    size |-> size])
    /\ mapped' = mapped \cup {mmap.region}
    /\ live' = Insert(live, id, content)

\* A handler that forgets to arm the deletion timer.
PostArmsNothing(id, size) == timers

\* main:131: SetupPasteDeletion(store, stats, id, size, *lifeTime).
PostArms(id, size) == Arm(timers, id, size, lifeTime, TRUE)

\* main:125-132: what handlePost does with Put's result.  The status of
\* the response is the first one written.
PostReturns(u, id, err) ==
    LET r == up[u]
        size == Len(r.content)
    IN /\ up' = [up EXCEPT ![u] = Done]
       /\ last' = [op |-> "post", id |-> id, err |-> err,
                   status |-> IF r.status # 0 THEN r.status
                              ELSE IF err # "" THEN 500 ELSE 200]
       /\ hstats' = IF err # "" THEN freeSpace(hstats, size) ELSE hstats
       /\ timers' = IF err # "" THEN timers
                    ELSE PostArms(id, size)

\* A Put that does not wait for the lock.
PutLockFree == TRUE

\* storage_mmap.go:86: s.Lock().
PutLocked == Unlocked

\* main:124-132: Put(content) and what handlePost does with its result.
\* The whole body of Put runs under the write lock.
PostPut(u) ==
    /\ phase = "serve"
    /\ PutLocked
    /\ up[u].pc = "put"
    /\ UNCHANGED <<lifeTime, maxNumber, maxStorage, now, phase, walk, handles, del,
                   deletes, limbo, leaked>>
    /\ LET content == up[u].content
           size == Len(content)
       IN IF ~PutAdmits(size)
          THEN /\ PostReturns(u, 0, "quota")
               /\ UNCHANGED <<disk, cache, sstats, mapped, live, faults>>
          ELSE \/ \* randomID gave up: every candidate it drew was taken
                  /\ \E id \in IDs : ~available(id)
                  /\ PostReturns(u, 0, "noid")
                  /\ UNCHANGED <<disk, cache, sstats, mapped, live, faults>>
               \/ \E id \in IDs :
                    /\ available(id)
                    /\ LET path == pathFromID(id)
                           file == [content |-> content, modTime |-> now]
                       IN
                       \/ \* writeNewFile fails and leaves the directory as it was
                          /\ path \in DOMAIN disk \/ Fault
                          /\ path \in DOMAIN disk => NoFault
                          /\ PostReturns(u, id, "write")
                          /\ UNCHANGED <<disk, cache, sstats, mapped, live>>
                       \/ \* the file is written; os.Open or getMmap fails
                          /\ path \notin DOMAIN disk
                          /\ Fault
                          /\ disk' = Insert(disk, path, file)
                          /\ PostReturns(u, id, "mmap")
                          /\ UNCHANGED <<cache, sstats, mapped, live>>
                       \/ /\ path \notin DOMAIN disk
                          /\ disk' = Insert(disk, path, file)
                          /\ PutInsert(id, content,
                                       getMmap(file.content, PutMapLength(content)))
                          /\ NoFault
                          /\ PostReturns(u, id, "")

\* --------------------------------------------------------- handlePost
\* main:113-123: the request is read and the reservation made.  A refused
\* reservation writes the 503 response, and the handler goes on to Put.
PostReserve(u, content) ==
    /\ phase = "serve"
    /\ up[u].pc = "idle"
    /\ \A v \in Uploads : v < u => up[v].pc # "idle"
    /\ LET size == Len(content)
           ok == hasSpaceFor(hstats, size)
       IN /\ hstats' = IF ok THEN makeSpaceFor(hstats, size) ELSE hstats
          /\ up' = [up EXCEPT ![u] = [Idle EXCEPT !.pc = "put", !.content = content,
                        !.reserved = ok, !.status = IF ok THEN 0 ELSE 503]]
    /\ last' = NoCall
    /\ UNCHANGED <<lifeTime, maxNumber, maxStorage, now, phase, walk, disk, cache,
                   sstats, mapped, handles, timers, del, live, deletes, faults, limbo, leaked>>

\* ------------------------------------------------------------- Delete
\* A Delete that leaves the entry on the table.
DeleteKeepsEntry(id) == cache

\* storage_mmap.go:126: delete(s.cache, id).
DeleteFromTable(id) == Remove(cache, id)

\* storage_mmap.go:120-126: Lock, look the entry up, take it off the table.
\* `cached` is a copy of the map's value.
DeleteLookup(id, tracked, size) ==
    IF id \notin DOMAIN cache
    THEN /\ last' = Call("delete", id, "notfound")
         /\ UNCHANGED <<cache, del, live>>
    ELSE /\ cache' = DeleteFromTable(id)
         /\ live' = Remove(live, id)
         /\ del' = {[id |-> id, cached |-> cache[id], tracked |-> tracked,
                     size |-> size]}
         /\ last' = NoCall

\* The deletion timer fires: the callback calls Delete(id).
TimerFire(t) ==
    /\ phase = "serve"
    /\ Unlocked
    /\ t \in timers
    /\ now >= t.due
    /\ timers' = timers \ {t}
    /\ DeleteLookup(t.id, t.tracked, t.size)
    /\ UNCHANGED <<lifeTime, maxNumber, maxStorage, now, phase, walk, disk, sstats,
                   hstats, mapped, handles, up, deletes, faults, limbo, leaked>>

\* Delete(id) called through the Store interface.
DeleteCall(c, id) ==
    /\ phase = "serve"
    /\ Unlocked
    /\ c \notin deletes
    /\ \A b \in Deleters : b < c => b \in deletes
    /\ deletes' = deletes \cup {c}
    /\ DeleteLookup(id, FALSE, 0)
    /\ UNCHANGED <<lifeTime, maxNumber, maxStorage, now, phase, walk, disk, sstats,
                   hstats, mapped, handles, timers, up, faults, limbo, leaked>>

\* A Delete that forgets to release the quota.
DeleteFreesNothing(d) == sstats

\* storage_mmap.go:134: the release of the quota.
DeleteFreeSpace(d) == freeSpace(sstats, d.cached.size)

\* storage_mmap.go:127: Wait() on Delete's own copy of the WaitGroup.
DeleteWaitOver(d) == d.cached.reading = 0

DeleteReturns(d, err) ==
    /\ del' = {}
    /\ last' = Call("delete", d.id, err)
    /\ hstats' = IF err = "" /\ d.tracked THEN freeSpace(hstats, d.size) ELSE hstats

\* storage_mmap.go:127-135: Wait, Munmap, Remove, freeSpace, Unlock; then,
\* in a timer's callback, the release of the handler's tracker.
DeleteFinish ==
    /\ \E d \in del :
         /\ DeleteWaitOver(d)
         /\ \/ /\ Fault
               /\ DeleteReturns(d, "munmap")
               /\ limbo' = makeSpaceFor(limbo, d.cached.size)
               /\ leaked' = leaked \cup {d.id}
               /\ UNCHANGED <<mapped, disk, sstats>>
            \/ /\ Fault
               /\ mapped' = mapped \ {d.cached.mmap.region}
               /\ DeleteReturns(d, "remove")
               /\ limbo' = makeSpaceFor(limbo, d.cached.size)
               /\ leaked' = leaked
               /\ UNCHANGED <<disk, sstats>>
            \/ /\ NoFault
               /\ mapped' = mapped \ {d.cached.mmap.region}
               /\ disk' = Remove(disk, d.cached.path)
               /\ sstats' = DeleteFreeSpace(d)
               /\ DeleteReturns(d, "")
               /\ limbo' = limbo
               /\ leaked' = leaked
    /\ UNCHANGED <<lifeTime, maxNumber, maxStorage, now, phase, walk, cache, handles,
                   timers, up, live, deletes>>

Tick ==
    /\ phase = "serve"
    /\ now < MaxTime
    /\ now' = now + 1
    /\ last' = NoCall
    /\ UNCHANGED <<lifeTime, maxNumber, maxStorage, phase, walk, disk, cache, sstats,
                   hstats, mapped, handles, timers, del, up, live, deletes, faults, limbo, leaked>>

Next ==
    \/ Recover
    \/ NewMmapStore
    \/ \E id \in IDs : Get(id)
    \/ \E slot \in Readers : Close(slot)
    \/ \E u \in Uploads, content \in Contents : PostReserve(u, content)
    \/ \E u \in Uploads : PostPut(u)
    \/ \E t \in timers : TimerFire(t)
    \/ \E c \in Deleters, id \in IDs : DeleteCall(c, id)
    \/ DeleteFinish
    \/ Tick

Spec == Init /\ [][Next]_vars

\* ------------------------------------------------- the fair scheduling
\* The clock never stops while a timer is pending.
TickOn ==
    /\ phase = "serve"
    /\ now < MaxTime \/ \E t \in timers : now < t.due
    /\ now' = now + 1
    /\ last' = NoCall
    /\ UNCHANGED <<lifeTime, maxNumber, maxStorage, phase, walk, disk, cache, sstats,
                   hstats, mapped, handles, timers, del, up, live, deletes, faults, limbo, leaked>>

\* A start with expiration enabled, at most one paste at once and only
\* files named by ids.
FairInit == Init /\ lifeTime > 0 /\ maxNumber = 1 /\ BadPath \notin DOMAIN disk

FairNext ==
    \/ Recover
    \/ NewMmapStore
    \/ \E id \in IDs : Get(id)
    \/ \E slot \in Readers : Close(slot)
    \/ \E u \in Uploads, content \in Contents : PostReserve(u, content)
    \/ \E u \in Uploads : PostPut(u)
    \/ \E t \in timers : TimerFire(t)
    \/ \E c \in Deleters, id \in IDs : DeleteCall(c, id)
    \/ DeleteFinish
    \/ TickOn

\* The goroutines of the server are scheduled fairly: the start-up walk goes
\* on, a handler that has reserved goes on to Put, a reader closes its
\* handle, a Delete that holds the lock finishes, time passes and a timer
\* that is due fires.
FairSpec ==
    /\ FairInit
    /\ [][FairNext]_vars
    /\ WF_vars(Recover)
    /\ WF_vars(NewMmapStore)
    /\ WF_vars(\E slot \in Readers : Close(slot))
    /\ WF_vars(\E u \in Uploads : PostPut(u))
    /\ WF_vars(\E t \in timers : TimerFire(t))
    /\ WF_vars(DeleteFinish)
    /\ WF_vars(TickOn)
\* ===================================================================
\* Properties
\* ===================================================================
NewHandle(r) == r \in DOMAIN handles' /\ r \notin DOMAIN handles

LiveNumber == Cardinality(DOMAIN cache)

RECURSIVE SumSizes(_, _)
SumSizes(f, S) ==
    IF S = {} THEN 0
    ELSE LET x == CHOOSE y \in S : TRUE
         IN f[x].size + SumSizes(f, S \ {x})

LiveStorage == SumSizes(cache, DOMAIN cache)

\* C1 (as claimed): no handle is open while its mapped region has been
\* unmapped: in every reachable state the region of every open handle is
\* still mapped.
ReaderSafety ==
    \A r \in DOMAIN handles : handles[r].content.region \in mapped

\* C2: the quota ceilings are never exceeded: when a ceiling is set, neither
\* tracker's counter nor the census of the live objects is above it, in
\* every reachable state of every interleaving of uploads and deletions.
QuotaCeilings ==
    /\ maxNumber > 0 => /\ sstats.number <= maxNumber
                        /\ hstats.number <= maxNumber
                        /\ LiveNumber <= maxNumber
    /\ maxStorage > 0 => /\ sstats.storage <= maxStorage
                         /\ hstats.storage <= maxStorage
                         /\ LiveStorage <= maxStorage

\* C2 witness: an upload is refused by Put at the ceiling while another
\* upload is between its reservation and its Put.
QuotaCeilingsWitness ==
    /\ last.op = "post" /\ last.err = "quota"
    /\ \E u \in Uploads : up[u].pc = "put"
    /\ \/ maxNumber > 0 /\ LiveNumber = maxNumber
       \/ maxStorage > 0 /\ LiveStorage = maxStorage

\* C3: no new reader attaches once deletion has begun: while a Delete is
\* past its removal step the id has no entry in the table; a Get of an id
\* without an entry returns ErrPasteNotFound and hands out no handle; every
\* handle that is handed out is on the region of the entry in the table, so
\* the handles on a region that was taken off the table never grow.
NoLateReaderStep ==
    /\ \A r \in Readers : NewHandle(r) =>
          /\ del = {}
          /\ handles'[r].id \in DOMAIN cache
          /\ handles'[r].content.region = cache[handles'[r].id].mmap.region
          /\ handles'[r].content.region \in mapped
    /\ \A d \in del :
          {r \in DOMAIN handles' : handles'[r].content.region = d.cached.mmap.region}
             \subseteq
          {r \in DOMAIN handles : handles[r].content.region = d.cached.mmap.region}
    /\ (last'.op = "get" /\ last'.id \notin DOMAIN cache) =>
          (last'.err = "notfound" /\ handles' = handles)

NoLateReader ==
    /\ [](\A d \in del : /\ d.id \notin DOMAIN cache
                         /\ \A i \in DOMAIN cache :
                              cache[i].mmap.region # d.cached.mmap.region)
    /\ [][NoLateReaderStep]_vars

\* C3 witness: a Delete is past its removal step while a reader still holds
\* a handle on the region it is about to unmap.
NoLateReaderWitness ==
    \E d \in del, r \in DOMAIN handles :
        /\ handles[r].content.region = d.cached.mmap.region
        /\ d.id \notin DOMAIN cache

\* C4: round trip and immutability: a handle that Get returns for a live
\* object reads exactly the bytes the object was stored with, on a region
\* that is mapped, and its Size is their number; a table entry never changes
\* between its insertion and its removal.
RoundTripStep ==
    /\ \A r \in Readers : NewHandle(r) =>
          LET h == handles'[r] IN
          /\ h.id \in DOMAIN live
          /\ h.content.data = live[h.id]
          /\ h.cache.size = Len(live[h.id])
          /\ h.content.region \in mapped'
    /\ \A id \in DOMAIN cache \cap DOMAIN cache' : cache'[id] = cache[id]

RoundTrip == [][RoundTripStep]_vars

\* C4 witness: Get has just returned a handle on a two-byte object that an
\* upload stored while another object was live.
RoundTripWitness ==
    /\ last.op = "get" /\ last.err = ""
    /\ \E r \in DOMAIN handles : /\ handles[r].id = last.id
                                 /\ handles[r].content.data = <<2, 1>>
                                 /\ handles[r].cache.modTime > startTime
    /\ LiveNumber = 2

\* C5 (as claimed): an upload whose reservation was refused is rejected: the
\* rest of its handler stores no object, arms no timer and leaves both
\* trackers as they were.
AdmissionRejection ==
    [][\A u \in Uploads :
         (up[u].pc = "put" /\ ~up[u].reserved /\ up'[u].pc = "done") =>
            /\ cache' = cache
            /\ disk' = disk
            /\ timers' = timers
            /\ hstats' = hstats
            /\ sstats' = sstats]_vars
\* Whether `size` more bytes in one more object fit under the ceilings when
\* n objects holding b bytes are counted.
Fits(n, b, size) ==
    /\ (maxNumber > 0 => n + 1 <= maxNumber)
    /\ (maxStorage > 0 => b + size <= maxStorage)

PutReturned(u) == up[u].pc = "put" /\ up'[u].pc = "done"

\* C6 (as claimed): a Put is refused for quota reasons exactly when the
\* count + 1 or the bytes + size would exceed a set ceiling, given the
\* objects currently live.
RefusedByLiveObjects ==
    [][\A u \in Uploads : PutReturned(u) =>
         (last'.err = "quota" <=>
            ~Fits(LiveNumber, LiveStorage, Len(up[u].content)))]_vars

\* C6 (amended): a Put is refused for quota reasons exactly when the
\* count + 1 or the bytes + size would exceed a set ceiling, given the live
\* objects and the objects whose Delete failed (their quota is released by a
\* successful Delete only); a refused Put stores nothing.
RefusedByHeldQuota ==
    [][\A u \in Uploads : PutReturned(u) =>
         /\ last'.err = "quota" <=>
               ~Fits(LiveNumber + limbo.number, LiveStorage + limbo.storage,
                     Len(up[u].content))
         /\ last'.err = "quota" =>
               /\ cache' = cache /\ disk' = disk /\ mapped' = mapped
               /\ sstats' = sstats /\ timers' = timers]_vars

\* C6 witness: with a maximum of one object and no failed system call, the
\* second upload is stored: the object that held the quota before it
\* (recovered, or stored by the first upload) was deleted.
ReleaseReadmitsWitness ==
    /\ maxNumber = 1 /\ faults = 0
    /\ up[1].pc = "done" /\ up[2].pc = "done"
    /\ last.op = "post" /\ last.err = ""
    /\ LiveNumber = 1

TimerFired(t) == t \in timers /\ t \notin timers'

\* C7: double deletion is a no-op: a Delete of an id without a table entry
\* returns ErrPasteNotFound and changes neither tracker, nor the table, nor
\* any mapping or file; a Delete that returns success took a live entry off
\* the table, unmaps a region that was mapped and releases that entry's size
\* once, so no second Delete can succeed for the same object.
DoubleDeleteStep ==
    /\ (last'.op = "delete" /\ last'.err = "notfound") =>
          /\ last'.id \notin DOMAIN cache
          /\ cache' = cache /\ mapped' = mapped /\ disk' = disk
          /\ sstats' = sstats /\ hstats' = hstats /\ del' = del
    /\ \A t \in timers : (TimerFired(t) /\ t.id \notin DOMAIN cache) =>
          last' = Call("delete", t.id, "notfound")
    /\ (deletes' # deletes /\ del' = {}) =>
          (last'.op = "delete" /\ last'.err = "notfound")
    /\ \A d \in del' \ del : d.id \in DOMAIN cache /\ d.cached = cache[d.id]
    /\ (last'.op = "delete" /\ last'.err = "") =>
          \E d \in del :
             /\ d.id = last'.id
             /\ d.cached.mmap.region \in mapped
             /\ d.cached.mmap.region \notin mapped'
             /\ sstats' = freeSpace(sstats, d.cached.size)
             /\ del' = {}

DoubleDelete ==
    /\ [](\A d \in del : d.id \notin DOMAIN cache)
    /\ [][DoubleDeleteStep]_vars

\* C7 witness: an upload was stored and deleted through the Store interface
\* (the handler's tracker still counts it), and its timer has now fired and
\* was answered ErrPasteNotFound.
DoubleDeleteWitness ==
    /\ last.op = "delete" /\ last.err = "notfound"
    /\ lifeTime > 0 /\ timers = {} /\ deletes # {} /\ faults = 0
    /\ DOMAIN cache = {} /\ hstats.number = 1

\* The recovery walk is at a regular file named by an id.
AtFile == phase = "recover" /\ walk # <<>> /\ idFromPath(Head(walk)).ok
HeadFile == disk[Head(walk)]
HeadID == idFromPath(Head(walk)).id

\* C8: recovery expiration: with a lifetime > 0, Recover removes a file
\* whose modification time plus the lifetime is at or before the start time
\* (or start-up fails on the removal); it gets no table entry, no quota and
\* no timer; once requests are served no such file and no such entry exists,
\* so Get on its id returns ErrPasteNotFound.
RecoveryExpirationStep ==
    (AtFile /\ lifeTime > 0 /\ HeadFile.modTime + lifeTime <= startTime) =>
        /\ phase' = "failed" \/ Head(walk) \notin DOMAIN disk'
        /\ cache' = cache /\ mapped' = mapped
        /\ sstats' = sstats /\ timers' = timers
        /\ last'.op = "recover" /\ last'.err \in {"expired", "remove"}

RecoveryExpiration ==
    /\ []((phase = "serve" /\ lifeTime > 0) =>
            /\ \A p \in DOMAIN disk : disk[p].modTime + lifeTime > startTime
            /\ \A id \in DOMAIN cache : cache[id].modTime + lifeTime > startTime)
    /\ [][RecoveryExpirationStep]_vars

\* C8 witness: Recover has just removed an expired file.
RecoveryExpirationWitness ==
    /\ last.op = "recover" /\ last.err = "expired"
    /\ pathFromID(last.id) \notin DOMAIN disk
    /\ phase = "recover"

\* C9: recovery fidelity: with a lifetime > 0, a non-empty file whose
\* modification time plus the lifetime is after the start time gets (unless
\* start-up fails) a table entry with the file's modification time and
\* content on a mapped region, and a timer armed with the remaining lifetime
\* modTime + lifetime - startTime, due at modTime + lifetime; a timer never
\* fires before it is due.
RecoveryFidelityStep ==
    /\ (AtFile /\ lifeTime > 0 /\ Len(HeadFile.content) > 0
          /\ HeadFile.modTime + lifeTime > startTime) =>
        \/ phase' = "failed"
        \/ /\ HeadID \in DOMAIN cache'
           /\ cache'[HeadID].modTime = HeadFile.modTime
           /\ cache'[HeadID].mmap.data = HeadFile.content
           /\ cache'[HeadID].size = Len(HeadFile.content)
           /\ cache'[HeadID].mmap.region \in mapped'
           /\ \E t \in timers' :
                /\ timers' = timers \cup {t} /\ t \notin timers
                /\ t.id = HeadID
                /\ t.after = HeadFile.modTime + lifeTime - startTime
                /\ t.due = HeadFile.modTime + lifeTime
    /\ \A t \in timers : TimerFired(t) => now >= t.due

RecoveryFidelity == [][RecoveryFidelityStep]_vars

\* C9 witness: requests are served, and an object recovered from a file
\* older than the start is live with a timer armed for less than the
\* lifetime.
RecoveryFidelityWitness ==
    /\ phase = "serve"
    /\ \E id \in DOMAIN cache, t \in timers :
         /\ cache[id].modTime < startTime
         /\ t.id = id /\ t.after < lifeTime /\ t.after > 0

\* C10: expiration disabled: with a lifetime of 0 Recover removes no
\* non-empty file whatever its age, no timer is ever armed, and an entry
\* leaves the table only by a Delete called through the Store interface.
ExpirationDisabledStep ==
    lifeTime = 0 =>
        /\ phase = "recover" =>
             \A p \in DOMAIN disk : Len(disk[p].content) > 0 =>
                 (p \in DOMAIN disk' /\ disk'[p] = disk[p])
        /\ (DOMAIN cache \ DOMAIN cache' # {}) => deletes' # deletes

ExpirationDisabled ==
    /\ [](lifeTime = 0 => timers = {})
    /\ [][ExpirationDisabledStep]_vars

\* C10 witness: with a lifetime of 0, after the clock has advanced, an
\* object recovered from a file of age MaxAge and an uploaded object are
\* both live.
ExpirationDisabledWitness ==
    /\ lifeTime = 0 /\ phase = "serve" /\ now > startTime
    /\ \E i \in DOMAIN cache, j \in DOMAIN cache :
         cache[i].modTime = 0 /\ cache[j].modTime >= startTime
\* Nothing is left of any object: no entry, no mapping, no file, no quota
\* held by the store's tracker.
AllRemoved ==
    /\ DOMAIN cache = {} /\ mapped = {} /\ DOMAIN disk = {}
    /\ sstats = NoStats

Quiescent ==
    /\ phase = "serve" /\ del = {}
    /\ \A u \in Uploads : up[u].pc # "put"

\* C12 (as claimed): exact quota accounting: in every quiescent state (here
\* even with no failed system call) the store's tracker counts exactly the
\* live objects and their bytes, and no counter of either tracker is
\* negative.
ExactAccounting ==
    (Quiescent /\ faults = 0) =>
        /\ sstats = [number |-> LiveNumber, storage |-> LiveStorage]
        /\ sstats.number >= 0 /\ sstats.storage >= 0
        /\ hstats.number >= 0 /\ hstats.storage >= 0
\* C13 (as claimed): a Delete that has taken its entry off the table has
\* released the table lock before it waits, unmaps and removes the file: as
\* long as it has not returned, a Get of any other id can go ahead (when a
\* reader is free to make the request).
DeleteBlocksNoOther ==
    \A d \in del : \A id \in IDs \ {d.id} :
        FreeSlots # {} => ENABLED Get(id)
\* C14 (as claimed): a timer armed for an earlier holder of an id never
\* deletes a later object stored under the same id: whenever a timer's
\* Delete takes an entry off the table, that entry's own lifetime has
\* elapsed.
TimerSparesLaterObject ==
    [][\A t \in timers :
         (TimerFired(t) /\ t.id \in DOMAIN cache /\ t.id \notin DOMAIN cache')
            => now >= cache[t.id].modTime + lifeTime]_vars
\* C15: identifier uniqueness: the id Put's generator returns has no table
\* entry at that moment, and the insertion happens in the same step; a Put
\* that succeeds creates a file that did not exist and a mapping that is
\* new, and leaves the entry, the mapping and the file of every live object
\* as they were; the live objects have pairwise different files and
\* mappings.
UniqueIdStep ==
    \A u \in Uploads : PutReturned(u) =>
        /\ last'.id # 0 => last'.id \notin DOMAIN cache
        /\ last'.err = "" =>
             /\ last'.id \in DOMAIN cache'
             /\ pathFromID(last'.id) \notin DOMAIN disk
             /\ cache'[last'.id].mmap.region \notin Referenced
        /\ \A i \in DOMAIN cache :
             /\ i \in DOMAIN cache' /\ cache'[i] = cache[i]
             /\ cache[i].mmap.region \in mapped <=> cache[i].mmap.region \in mapped'
             /\ cache[i].path \in DOMAIN disk =>
                  (cache[i].path \in DOMAIN disk'
                     /\ disk'[cache[i].path] = disk[cache[i].path])

UniqueId ==
    /\ [](\A i \in DOMAIN cache, j \in DOMAIN cache :
            i # j => /\ cache[i].path # cache[j].path
                     /\ cache[i].mmap.region # cache[j].mmap.region)
    /\ [][UniqueIdStep]_vars

\* C15 witness: two uploads were in Put's queue at once; one has just been
\* stored while the other still waits, and another object is live.
UniqueIdWitness ==
    /\ last.op = "post" /\ last.err = ""
    /\ \E u \in Uploads : up[u].pc = "put"
    /\ LiveNumber = 2
\* C16: identifier reuse happens after deletion: Put draws its id only when
\* no Delete is between its removal step and its return, and a Put that
\* succeeds hands out an id whose file does not exist and whose previous
\* holder's mapping is not left over from a failed unmap; an id whose
\* holder's Delete failed to unmap still has its file.
ReuseAfterDeleteStep ==
    \A u \in Uploads : PutReturned(u) =>
        /\ del = {}
        /\ last'.err = "" =>
             /\ pathFromID(last'.id) \notin DOMAIN disk
             /\ last'.id \notin leaked

CacheDiskAgreementStep ==
    /\ (phase = "recover" /\ phase' = "serve") =>
          \A p \in DOMAIN disk' :
             idFromPath(p).ok /\ idFromPath(p).id \in DOMAIN cache'
    /\ \A t \in timers' \ timers : t.id \in DOMAIN cache'

CacheDiskAgreement ==
    /\ [](/\ DOMAIN cache = DOMAIN live
          /\ \A id \in DOMAIN cache :
               /\ cache[id].mmap.region \in mapped
               /\ cache[id].path = pathFromID(id)
               /\ cache[id].path \in DOMAIN disk
               /\ disk[cache[id].path].content = cache[id].mmap.data)
    /\ [][CacheDiskAgreementStep]_vars

\* C17 witness: NewMmapStore has just returned with two recovered files,
\* both with an entry and a timer, before any request.
CacheDiskAgreementWitness ==
    /\ phase = "serve" /\ last = NoCall /\ now = startTime
    /\ \A u \in Uploads : up[u].pc = "idle"
    /\ deletes = {} /\ handles = Empty
    /\ DOMAIN cache = IDs
    /\ \A id \in IDs : \E t \in timers : t.id = id
\* C18 (as claimed): recovery tolerates malformed entries: when the walk is
\* at a file whose name is not an id, the Recover callback reports no
\* error, only that entry is passed over and the walk goes on to the next
\* path.
RecoveryToleratesBadName ==
    [][(phase = "recover" /\ walk # <<>> /\ Head(walk) # topDir
          /\ ~idFromPath(Head(walk)).ok) =>
            /\ phase' = "recover"
            /\ walk' = Tail(walk)
            /\ last'.err = ""]_vars
\* C19 (as claimed): rollback on failed persistence: when an upload's Put
\* fails, the handler's tracker is released by the size of the upload if the
\* reservation of that request had succeeded, and is left alone if it had
\* been refused.
RollbackMatchesReservation ==
    [][\A u \in Uploads : (PutReturned(u) /\ last'.err # "") =>
         hstats' = IF up[u].reserved
                   THEN freeSpace(hstats, Len(up[u].content))
                   ELSE hstats]_vars
\* C20 (as claimed): a failed Put leaves no trace: when Put returns an
\* error, the table and the store's tracker are as before and no file that
\* was not there before is on disk.
FailedPutLeavesNoTrace ==
    [][\A u \in Uploads : (PutReturned(u) /\ last'.err # "") =>
         /\ cache' = cache
         /\ sstats' = sstats
         /\ DOMAIN disk' \subseteq DOMAIN disk]_vars
====
